---- MODULE Spec2Model ----
(***************************************************************************)
(* A model of parse.py, the Hebrew Wiktionary dump parser.                 *)
(*                                                                         *)
(* The program is a batch pipeline.  Each part of it is modelled as a      *)
(* state machine of its own, with its own specification:                   *)
(*   SpecDriver  parse_pages / try_parse_page / Page.from_xml / main       *)
(*   SpecForm    GrammarInfo.from_dict's declensions and parse_form        *)
(*   SpecMarkup  remove_markup, parse_wikilinks, WikiLink.from_wtp_wikilink*)
(*   SpecTrans   the translations loop of Entry.from_section               *)
(*   SpecList    Section.subsections and get_list_from_subsection          *)
(*   SpecDef     Definition.from_definition_and_str (register, time_period)*)
(* A part that is not running rests at pc "idle".                          *)
(*                                                                         *)
(* Text is a sequence of characters (or of wikitext tokens), each a short  *)
(* string; Hebrew letters are written by their names ("RESH", "MAQAF").    *)
(* An absent value (Python's None, a missing XML child) is the empty       *)
(* tuple Absent and a present value v is the one-element tuple Some(v).    *)
(***************************************************************************)
EXTENDS Integers, Sequences, FiniteSets, TLC

VARIABLES
    drv_pc,        \* "idle" | "parsing" | "parsed" | "written" | "crashed"
    drv_fed,       \* the page elements read so far, one summary per element
    drv_pages,     \* parse_pages' result list so far
    drv_origin,    \* for each Page of drv_pages, the index of its element
    drv_log,       \* the indices of the elements try_parse_page printed
    drv_output,    \* what main dumped to pages.json (Absent before): the
                   \* positions in drv_pages of the Pages it kept
    frm_pc,        \* "idle" | "input" | "done" | "formed"
    frm_decls,     \* the raw value of the declensions argument
    frm_declensions, \* GrammarInfo.declensions (Absent for None)
    frm_form,      \* parse_form of the raw value itself (Absent before)
    mk_pc,         \* "idle" | "build" | "stripped" | "restripped" | "linked"
    mk_done,       \* the wikitext written so far, up to the last fragment
    mk_cur,        \* the fragment being written
    mk_once,       \* remove_markup(text)
    mk_twice,      \* remove_markup(remove_markup(text))
    mk_links,      \* parse_wikilinks(text)
    mk_antonyms,   \* parse_antonym(text)
    tr_pc,         \* "idle" | "scan" | "done" | "none"
    tr_tems,       \* the templates of the translation subsection read so far
    translations,  \* Entry.translations: language code -> list
    ls_pc,         \* "idle" | "build" | "called"
    ls_subsections, \* Section.subsections: title -> the lists of its body
    ls_titles,     \* the candidate titles of the call
    ls_result,     \* what get_list_from_subsection returned
    df_pc,         \* "idle" | "build" | "done"
    df_templates,  \* the templates of the definition text, in order
    df_register,   \* Definition.register
    df_time_period \* Definition.time_period

drv_vars == <<drv_pc, drv_fed, drv_pages, drv_origin, drv_log, drv_output>>
frm_vars == <<frm_pc, frm_decls, frm_declensions, frm_form>>

mk_vars ==
    <<mk_pc, mk_done, mk_cur, mk_once, mk_twice, mk_links, mk_antonyms>>

tr_vars == <<tr_pc, tr_tems, translations>>
ls_vars == <<ls_pc, ls_subsections, ls_titles, ls_result>>
df_vars == <<df_pc, df_templates, df_register, df_time_period>>

vars == <<drv_vars, frm_vars, mk_vars, tr_vars, ls_vars, df_vars>>

Absent == <<>>
Some(v) == <<v>>
Opt(S) == {Absent} \cup {Some(v) : v \in S}
SeqsUpTo(S, n) == UNION {[1..k -> S] : k \in 0..n}
Range(s) == {s[i] : i \in DOMAIN s}

\* the resting state of each part
IdleDriver ==
    /\ drv_pc = "idle"
    /\ drv_fed = <<>>
    /\ drv_pages = <<>>
    /\ drv_origin = <<>>
    /\ drv_log = {}
    /\ drv_output = Absent

IdleForm ==
    /\ frm_pc = "idle"
    /\ frm_decls = <<>>
    /\ frm_declensions = Absent
    /\ frm_form = Absent

IdleMarkup ==
    /\ mk_pc = "idle"
    /\ mk_done = <<>>
    /\ mk_cur = <<>>
    /\ mk_once = <<>>
    /\ mk_twice = <<>>
    /\ mk_links = <<>>
    /\ mk_antonyms = <<>>

IdleTrans ==
    /\ tr_pc = "idle"
    /\ tr_tems = <<>>
    /\ translations = <<>>

IdleList ==
    /\ ls_pc = "idle"
    /\ ls_subsections = <<>>
    /\ ls_titles = <<>>
    /\ ls_result = Absent

IdleDef ==
    /\ df_pc = "idle"
    /\ df_templates = <<>>
    /\ df_register = Absent
    /\ df_time_period = Absent

(***************************************************************************)
(* Declension forms.                                                       *)
(***************************************************************************)
MaxDeclLen == 5

\* the characters declension values are drawn from
FormChars == {"RESH", "ZAYIN", "ALEF", "'", " ", ",", "MAQAF"}

whitespace == {" "}
decl_delims == {",", ";"}

wiktionary_form_tag == <<
    <<<<"RESH", "'">>, "plural">>,
    <<<<"NUN", "'">>, "female">>,
    <<<<"NUN", "\"", "RESH">>, "female plural">>,
    <<<<"KAF", "'">>, "possessive">>,
    <<<<"NUN", "\"", "YOD", ":">>, "female">>,
    <<<<"RESH", "GERESH">>, "plural">>,
    <<<<"SAMEKH", "\"", "RESH">>, "construct plural">>,
    <<<<"RESH", "'", ":">>, "plural">>,
    <<<<"NUN", "\"", "RESH", ":">>, "female plural">>,
    <<<<"KAF", "'", ":">>, "possessive">>,
    <<<<"NUN", "'", ":">>, "female">>,
    <<<<"RESH", "\"", "NUN", ":">>, "female plural">>,
    <<<<"RESH", "\"", "ZAYIN", ":">>, "male plural">>,
    <<<<"SAMEKH", "'">>, "construct">>,
    <<<<"NUN", "GERESH">>, "female">>,
    <<<<"NUN", "SAMEKH", "'">>, "female construct">>,
    <<<<"NUN", "GERSHAYIM", "RESH">>, "female plural">>,
    <<<<"<", "B", "R", ">", "RESH", "'">>, "plural">>,
    <<<<"<", "B", "R", ">", "NUN", "\"", "RESH">>, "female plural">>,
    <<<<"<", "b", "r", ">", "NUN", "\"", "RESH">>, "female plural">>,
    <<<<"ZAYIN", "VAV", "GIMEL", "YOD">>, "dual">>,
    <<<<"RESH", "BET", "YOD", "FINAL_MEM">>, "plural">>,
    <<<<"ZAYIN", "'">>, "male">>,
    <<<<"YOD", "HET", "YOD", "DALET">>, "singular">>,
    <<<<"NUN", "\"", "NUN", ":">>, "female construct">>,
    <<<<"ZAYIN", "VAV", "GIMEL", "YOD", ":">>, "dual">>,
    <<<<"SAMEKH", "GERSHAYIM", "RESH">>, "construct plural">>,
    <<<<"NUN", "\"", "YOD">>, "female">>,
    <<<<"NUN", "SAMEKH", "MEM", "FINAL_KAF">>, "construct">>,
    <<<<"SAMEKH", "\"", "YOD", ":">>, "construct">>,
    <<<<"SHIN", "LAMED", "YOD", ":">>, "possessive">>,
    <<<<"SHIN", "LAMED", "VAV", ":">>, "possessive">>,
    <<<<"SAMEKH", "GERESH">>, "construct">>,
    <<<<"YOD", "'">>, "singular">>,
    <<<<"(", "NUN", "'">>, "female">>,
    <<<<"ZAYIN", "\"", "RESH">>, "male plural">>,
    <<<<"SAMEKH", "\"", "RESH", ":">>, "construct plural">>,
    <<<<"YOD", "HET", "YOD", "DALET", "HE", ":">>, "female">>,
    <<<<"RESH">>, "plural">>,
    <<<<"BET", "YOD", "YOD", "DALET", "VAV", "AYIN", ":">>, "definite">>
>>

IsPrefix(k, f) == Len(k) <= Len(f) /\ SubSeq(f, 1, Len(k)) = k
Min(S) == CHOOSE x \in S : \A y \in S : x <= y

\* form_tag_regex.match(f): the first alternative, in the table's order,
\* that matches at the start of f (0 for no match)
form_tag_regex_match(f) ==
    LET hits == {i \in DOMAIN wiktionary_form_tag :
                    IsPrefix(wiktionary_form_tag[i][1], f)}
    IN IF hits = {} THEN 0 ELSE Min(hits)

RECURSIVE lstrip(_)
lstrip(s) ==
    IF s # <<>> /\ Head(s) \in whitespace THEN lstrip(Tail(s)) ELSE s

RECURSIVE rstrip(_)
rstrip(s) ==
    IF s # <<>> /\ s[Len(s)] \in whitespace
    THEN rstrip(SubSeq(s, 1, Len(s) - 1)) ELSE s

strip(s) == lstrip(rstrip(s))

\* the first index of s holding a member of S (0 for none)
find(s, S) ==
    LET hits == {i \in DOMAIN s : s[i] \in S} IN
    IF hits = {} THEN 0 ELSE Min(hits)

\* str.split(maxsplit=1): at most two pieces, the second with its trailing
\* whitespace
split_maxsplit1(f) ==
    LET g == lstrip(f)
        j == find(g, whitespace)
    IN IF g = <<>> THEN <<>>
       ELSE IF j = 0 THEN <<g>>
       ELSE LET rest == lstrip(SubSeq(g, j + 1, Len(g))) IN
            IF rest = <<>> THEN <<SubSeq(g, 1, j - 1)>>
            ELSE <<SubSeq(g, 1, j - 1), rest>>

parse_form_typo(f) ==
    IF " " \in Range(f)
    THEN LET m == form_tag_regex_match(f)
             parts == split_maxsplit1(f)
         IN IF m # 0 /\ Len(parts) >= 2
            THEN <<wiktionary_form_tag[m][2], parts[2]>>
            ELSE <<"unknwon", f>>
    ELSE IF f # <<>> /\ f[Len(f)] = "MAQAF"
    THEN <<"construct", SubSeq(f, 1, Len(f) - 1)>>
    ELSE <<"unknwon", f>>

\* parse_form; the IndexError of split(...)[1] is caught and falls through
parse_form(f) ==
    IF " " \in Range(f)
    THEN LET m == form_tag_regex_match(f)
             parts == split_maxsplit1(f)
         IN IF m # 0 /\ Len(parts) >= 2
            THEN <<wiktionary_form_tag[m][2], parts[2]>>
            ELSE <<"unknown", f>>
    ELSE IF f # <<>> /\ f[Len(f)] = "MAQAF"
    THEN <<"construct", SubSeq(f, 1, Len(f) - 1)>>
    ELSE <<"unknown", f>>

\* decl_delim_regex.split: the pieces between the delimiters, without the
\* whitespace around each delimiter
RECURSIVE decl_delim_regex_split(_)
decl_delim_regex_split(s) ==
    LET j == find(s, decl_delims) IN
    IF j = 0 THEN <<s>>
    ELSE <<rstrip(SubSeq(s, 1, j - 1))>>
         \o decl_delim_regex_split(lstrip(SubSeq(s, j + 1, Len(s))))

\* GrammarInfo.from_dict's declensions, from d.get of the argument
from_dict_declensions(decls) ==
    IF decls = Absent \/ decls[1] = <<>> THEN Absent
    ELSE LET pieces == decl_delim_regex_split(decls[1]) IN
         Some([i \in DOMAIN pieces |-> parse_form(pieces[i])])

\* the wikitext author writes one more character of the argument
write_decl_char(c) ==
    /\ frm_pc = "input"
    /\ Len(frm_decls) < MaxDeclLen
    /\ frm_decls' = Append(frm_decls, c)
    /\ UNCHANGED <<frm_pc, frm_declensions, frm_form>>
    /\ UNCHANGED <<drv_vars, mk_vars, tr_vars, ls_vars, df_vars>>

\* Entry.from_section on a grammar template that has the declensions
\* argument: the stripped value goes to GrammarInfo.from_dict
grammar_from_dict ==
    /\ frm_pc = "input"
    /\ frm_pc' = "done"
    /\ frm_declensions' = from_dict_declensions(Some(strip(frm_decls)))
    /\ UNCHANGED <<frm_decls, frm_form>>
    /\ UNCHANGED <<drv_vars, mk_vars, tr_vars, ls_vars, df_vars>>

\* parse_form called on the value as it stands
call_parse_form ==
    /\ frm_pc = "input"
    /\ frm_pc' = "formed"
    /\ frm_form' = Some(parse_form(frm_decls))
    /\ UNCHANGED <<frm_decls, frm_declensions>>
    /\ UNCHANGED <<drv_vars, mk_vars, tr_vars, ls_vars, df_vars>>

InitForm ==
    /\ frm_pc = "input"
    /\ frm_decls = <<>>
    /\ frm_declensions = Absent
    /\ frm_form = Absent
    /\ IdleDriver /\ IdleMarkup /\ IdleTrans /\ IdleList /\ IdleDef

NextForm ==
    \/ \E c \in FormChars : write_decl_char(c)
    \/ grammar_from_dict
    \/ call_parse_form

SpecForm == InitForm /\ [][NextForm]_vars


(***************************************************************************)
(* Markup.  Wikitext is a sequence of tokens: the letter "a", the space,   *)
(* the bold quote B3 (three apostrophes), the italic quote I2 (two), "[[", *)
(* "|", "]]", and the tag "<b>" with its end "</b>".  The parser library   *)
(* keeps its spans in step with the string it edits, so each pass of       *)
(* remove_markup sees the parse of the string the pass before it left.     *)
(***************************************************************************)
MaxTokens == 7

B3 == "'''"
I2 == "''"
quotes == {B3, I2}

\* how many wikilinks are open before position i of s
RECURSIVE link_depth(_, _)
link_depth(s, i) ==
    IF i <= 1 THEN 0
    ELSE link_depth(s, i - 1)
         + (IF s[i - 1] = "[[" THEN 1 ELSE IF s[i - 1] = "]]" THEN -1 ELSE 0)

\* s without the tokens of S that lie outside every wikilink
drop_top_level(s, S) ==
    LET keep == {i \in DOMAIN s : ~(s[i] \in S /\ link_depth(s, i) = 0)}
        RECURSIVE pick(_)
        pick(i) == IF i > Len(s) THEN <<>>
                   ELSE (IF i \in keep THEN <<s[i]>> ELSE <<>>) \o pick(i + 1)
    IN pick(1)

\* the position of the "]]" that closes the "[[" at position i
link_end(s, i) ==
    Min({j \in DOMAIN s : j > i /\ s[j] = "]]"
                          /\ link_depth(s, j + 1) = link_depth(s, i)})

\* wtp's WikiLink of the span i..j: the target, the text after the first
\* pipe (None without a pipe), and whether it holds wikilinks
wtp_wikilink(s, i, j) ==
    LET inner == SubSeq(s, i + 1, j - 1)
        p == find(inner, {"|"})
    IN [target |-> IF p = 0 THEN inner ELSE SubSeq(inner, 1, p - 1),
        text |-> IF p = 0 THEN Absent
                 ELSE Some(SubSeq(inner, p + 1, Len(inner))),
        wikilinks |-> "[[" \in Range(inner)]

\* wl.text or wl.target
text_or_target(wl) ==
    IF wl.text # Absent /\ wl.text[1] # <<>> THEN wl.text[1] ELSE wl.target

\* get_bolds(recursive=False): the bold spans outside wikilinks (a wikilink
\* is opaque to the non-recursive search); each becomes its inner text
unwrap_bolds(s) == drop_top_level(s, {B3})

\* get_italics(recursive=False), likewise
unwrap_italics(s) == drop_top_level(s, {I2})

\* every wikilink: one that holds wikilinks is deleted with all it holds,
\* another becomes its text or target
RECURSIVE unwrap_wikilinks(_)
unwrap_wikilinks(s) ==
    LET i == find(s, {"[["}) IN
    IF i = 0 THEN s
    ELSE LET j == link_end(s, i)
             wl == wtp_wikilink(s, i, j)
         IN SubSeq(s, 1, i - 1)
            \o (IF wl.wikilinks THEN <<>> ELSE text_or_target(wl))
            \o unwrap_wikilinks(SubSeq(s, j + 1, Len(s)))

\* get_tags(): every tag becomes its contents
unwrap_tags(s) == SelectSeq(s, LAMBDA t : t \notin {"<b>", "</b>"})

\* plain_text with the wikilink, tag, bold and italic replacements off
\* leaves these tokens alone
plain_text(s) == s

remove_markup(s) ==
    strip(plain_text(unwrap_tags(unwrap_wikilinks(
        unwrap_italics(unwrap_bolds(s))))))

\* wtp.parse(a).wikilinks: every wikilink, nested ones too, in the order
\* they start
wikilinks(s) ==
    LET starts == {i \in DOMAIN s : s[i] = "[["}
        RECURSIVE from(_)
        from(i) == IF i > Len(s) THEN <<>>
                   ELSE (IF i \in starts
                         THEN <<wtp_wikilink(s, i, link_end(s, i))>>
                         ELSE <<>>) \o from(i + 1)
    IN from(1)

from_wtp_wikilink_no_fallback(wl) ==
    [text |-> IF wl.text # Absent THEN wl.text[1] ELSE <<>>,
     link |-> wl.target]

from_wtp_wikilink(wl) == [text |-> text_or_target(wl), link |-> wl.target]

parse_wikilinks(a) ==
    LET wls == wikilinks(a) IN
    [k \in DOMAIN wls |-> from_wtp_wikilink(wls[k])]

\* parse_antonym: the wikilinks, or the item itself when it has none and
\* is not blank
parse_antonym(a) ==
    LET wls == parse_wikilinks(a) IN
    IF wls = <<>> /\ strip(a) # <<>>
    THEN <<[str |-> a]>>
    ELSE [k \in DOMAIN wls |-> [wikilink |-> wls[k]]]

\* the text written so far
mk_text == mk_done \o mk_cur

edge_ok(s) == s # <<>> /\ Head(s) \notin quotes /\ s[Len(s)] \notin quotes
\* a quote written next to where the text so far ends in a quote would run
\* the two together
seam_ok(done) == IF done = <<>> THEN TRUE ELSE done[Len(done)] \notin quotes
has_top_level(s, tok) ==
    \E i \in DOMAIN s : s[i] = tok /\ link_depth(s, i) = 0

\* the author writes: a character, a link without text, a wrapper around
\* the current fragment, or the start of a new fragment
write_char(c) ==
    /\ mk_pc = "build"
    /\ Len(mk_text) + 1 <= MaxTokens
    /\ mk_cur' = Append(mk_cur, c)
    /\ UNCHANGED <<mk_pc, mk_done, mk_once, mk_twice, mk_links, mk_antonyms>>
    /\ UNCHANGED <<drv_vars, frm_vars, tr_vars, ls_vars, df_vars>>

write_plain_link ==
    /\ mk_pc = "build"
    /\ Len(mk_text) + 3 <= MaxTokens
    /\ mk_cur' = mk_cur \o <<"[[", "a", "]]">>
    /\ UNCHANGED <<mk_pc, mk_done, mk_once, mk_twice, mk_links, mk_antonyms>>
    /\ UNCHANGED <<drv_vars, frm_vars, tr_vars, ls_vars, df_vars>>

wrap_bold ==
    /\ mk_pc = "build"
    /\ Len(mk_text) + 2 <= MaxTokens
    /\ edge_ok(mk_cur)
    /\ seam_ok(mk_done)
    /\ ~has_top_level(mk_cur, B3)
    /\ mk_cur' = <<B3>> \o mk_cur \o <<B3>>
    /\ UNCHANGED <<mk_pc, mk_done, mk_once, mk_twice, mk_links, mk_antonyms>>
    /\ UNCHANGED <<drv_vars, frm_vars, tr_vars, ls_vars, df_vars>>

wrap_italic ==
    /\ mk_pc = "build"
    /\ Len(mk_text) + 2 <= MaxTokens
    /\ edge_ok(mk_cur)
    /\ seam_ok(mk_done)
    /\ ~has_top_level(mk_cur, I2)
    /\ mk_cur' = <<I2>> \o mk_cur \o <<I2>>
    /\ UNCHANGED <<mk_pc, mk_done, mk_once, mk_twice, mk_links, mk_antonyms>>
    /\ UNCHANGED <<drv_vars, frm_vars, tr_vars, ls_vars, df_vars>>

wrap_link ==
    /\ mk_pc = "build"
    /\ Len(mk_text) + 4 <= MaxTokens
    /\ mk_cur' = <<"[[", "a", "|">> \o mk_cur \o <<"]]">>
    /\ UNCHANGED <<mk_pc, mk_done, mk_once, mk_twice, mk_links, mk_antonyms>>
    /\ UNCHANGED <<drv_vars, frm_vars, tr_vars, ls_vars, df_vars>>

wrap_tag ==
    /\ mk_pc = "build"
    /\ Len(mk_text) + 2 <= MaxTokens
    /\ mk_cur' = <<"<b>">> \o mk_cur \o <<"</b>">>
    /\ UNCHANGED <<mk_pc, mk_done, mk_once, mk_twice, mk_links, mk_antonyms>>
    /\ UNCHANGED <<drv_vars, frm_vars, tr_vars, ls_vars, df_vars>>

next_fragment ==
    /\ mk_pc = "build"
    /\ mk_cur # <<>>
    /\ mk_done' = mk_done \o mk_cur
    /\ mk_cur' = <<>>
    /\ UNCHANGED <<mk_pc, mk_once, mk_twice, mk_links, mk_antonyms>>
    /\ UNCHANGED <<drv_vars, frm_vars, tr_vars, ls_vars, df_vars>>

\* the assembler strips an item (an etymology item, a definition)
call_remove_markup ==
    /\ mk_pc = "build"
    /\ mk_pc' = "stripped"
    /\ mk_once' = remove_markup(mk_text)
    /\ UNCHANGED <<mk_done, mk_cur, mk_twice, mk_links, mk_antonyms>>
    /\ UNCHANGED <<drv_vars, frm_vars, tr_vars, ls_vars, df_vars>>

\* the result is stripped again
call_remove_markup_again ==
    /\ mk_pc = "stripped"
    /\ mk_pc' = "restripped"
    /\ mk_twice' = remove_markup(mk_once)
    /\ UNCHANGED <<mk_done, mk_cur, mk_once, mk_links, mk_antonyms>>
    /\ UNCHANGED <<drv_vars, frm_vars, tr_vars, ls_vars, df_vars>>

\* the assembler reads an item's wikilinks, as for see_also and as for
\* antonyms
call_parse_wikilinks ==
    /\ mk_pc = "build"
    /\ mk_pc' = "linked"
    /\ mk_links' = parse_wikilinks(mk_text)
    /\ mk_antonyms' = parse_antonym(mk_text)
    /\ UNCHANGED <<mk_done, mk_cur, mk_once, mk_twice>>
    /\ UNCHANGED <<drv_vars, frm_vars, tr_vars, ls_vars, df_vars>>

InitMarkup ==
    /\ mk_pc = "build"
    /\ mk_done = <<>>
    /\ mk_cur = <<>>
    /\ mk_once = <<>>
    /\ mk_twice = <<>>
    /\ mk_links = <<>>
    /\ mk_antonyms = <<>>
    /\ IdleDriver /\ IdleForm /\ IdleTrans /\ IdleList /\ IdleDef

NextMarkup ==
    \/ \E c \in {"a", " "} : write_char(c)
    \/ write_plain_link
    \/ wrap_bold
    \/ wrap_italic
    \/ wrap_link
    \/ wrap_tag
    \/ next_fragment
    \/ call_remove_markup
    \/ call_remove_markup_again
    \/ call_parse_wikilinks

SpecMarkup == InitMarkup /\ [][NextMarkup]_vars

(***************************************************************************)
(* Translations: the loop of Entry.from_section over the templates of the  *)
(* translation subsection.                                                 *)
(***************************************************************************)
MaxTemplates == 3

\* the templates a translation subsection holds: TAV is the translation
\* template's name
TranslationArgs ==
    {<<>>, <<"en">>, <<"en", "hello">>, <<"en", "peace">>,
     <<"fr", "hello">>, <<"fr", "bonjour">>, <<"en", "peace", "x">>}
TranslationTemplates == [name : {"TAV", "other"}, arguments : TranslationArgs]

\* translations[k].append(v) on a defaultdict(list)
defaultdict_overwrite(d, k, v) ==
    [x \in DOMAIN d \cup {k} |-> IF x = k THEN <<v>> ELSE d[x]]

defaultdict_append(d, k, v) ==
    [x \in DOMAIN d \cup {k} |->
        IF x = k THEN (IF k \in DOMAIN d THEN Append(d[k], v) ELSE <<v>>)
        ELSE d[x]]

\* one template of the subsection: the name filter and the loop body
translation_template(t) ==
    /\ tr_pc = "scan"
    /\ Len(tr_tems) < MaxTemplates
    /\ tr_tems' = Append(tr_tems, t)
    /\ translations' =
         IF t.name = "TAV" /\ Len(t.arguments) >= 2
         THEN defaultdict_append(translations, t.arguments[1], t.arguments[2])
         ELSE translations
    /\ UNCHANGED tr_pc
    /\ UNCHANGED <<drv_vars, frm_vars, mk_vars, ls_vars, df_vars>>

\* the end of the loop: translations = dict(translations)
translations_dict ==
    /\ tr_pc = "scan"
    /\ tr_pc' = "done"
    /\ UNCHANGED <<tr_tems, translations>>
    /\ UNCHANGED <<drv_vars, frm_vars, mk_vars, ls_vars, df_vars>>

\* the entry has no translation subsection
no_translation_subsection ==
    /\ tr_pc = "scan"
    /\ tr_tems = <<>>
    /\ tr_pc' = "none"
    /\ UNCHANGED <<tr_tems, translations>>
    /\ UNCHANGED <<drv_vars, frm_vars, mk_vars, ls_vars, df_vars>>

InitTrans ==
    /\ tr_pc = "scan"
    /\ tr_tems = <<>>
    /\ translations = <<>>
    /\ IdleDriver /\ IdleForm /\ IdleMarkup /\ IdleList /\ IdleDef

NextTrans ==
    \/ \E t \in TranslationTemplates : translation_template(t)
    \/ translations_dict
    \/ no_translation_subsection

SpecTrans == InitTrans /\ [][NextTrans]_vars

(***************************************************************************)
(* Lists of subsections.                                                   *)
(***************************************************************************)
MaxLists == 2

SubsectionTitles == {"A", "B", "C"}
\* the lists top.get_lists() returns for a subsection body, in the order
\* the library returns them, each by its items
WikiLists == {<<"x">>, <<"y", "z">>}
ListsOfBody == SeqsUpTo(WikiLists, MaxLists)
CandidateTitles == {t \in SeqsUpTo(SubsectionTitles, 2) : t # <<>>}

\* Section.from_wtp_section: the dict of subsections, a later one of the
\* same title replacing the earlier
add_subsection(title, lists) ==
    /\ ls_pc = "build"
    /\ ls_subsections' =
         [x \in DOMAIN ls_subsections \cup {title} |->
             IF x = title THEN lists ELSE ls_subsections[x]]
    /\ UNCHANGED <<ls_pc, ls_titles, ls_result>>
    /\ UNCHANGED <<drv_vars, frm_vars, mk_vars, tr_vars, df_vars>>

\* itertools.chain.from_iterable
RECURSIVE flatten(_)
flatten(ls) == IF ls = <<>> THEN <<>> ELSE Head(ls) \o flatten(Tail(ls))

RECURSIVE first_subsection_with_list(_, _)
first_subsection_with_list(subsections, titles) ==
    IF titles = <<>> THEN Absent
    ELSE IF Head(titles) \in DOMAIN subsections
            /\ subsections[Head(titles)] # <<>>
    THEN Some(subsections[Head(titles)])
    ELSE first_subsection_with_list(subsections, Tail(titles))

\* the for loop with its break
RECURSIVE first_subsection(_, _)
first_subsection(subsections, titles) ==
    IF titles = <<>> THEN Absent
    ELSE IF Head(titles) \in DOMAIN subsections
    THEN Some(subsections[Head(titles)])
    ELSE first_subsection(subsections, Tail(titles))

get_list_from_subsection(subsections, titles) ==
    LET subsection == first_subsection(subsections, titles) IN
    IF subsection # Absent /\ subsection[1] # <<>>
    THEN Some(flatten(subsection[1]))
    ELSE Absent

call_get_list_from_subsection(titles) ==
    /\ ls_pc = "build"
    /\ ls_pc' = "called"
    /\ ls_titles' = titles
    /\ ls_result' = get_list_from_subsection(ls_subsections, titles)
    /\ UNCHANGED ls_subsections
    /\ UNCHANGED <<drv_vars, frm_vars, mk_vars, tr_vars, df_vars>>

InitList ==
    /\ ls_pc = "build"
    /\ ls_subsections = <<>>
    /\ ls_titles = <<>>
    /\ ls_result = Absent
    /\ IdleDriver /\ IdleForm /\ IdleMarkup /\ IdleTrans /\ IdleDef

NextList ==
    \/ \E title \in SubsectionTitles, lists \in ListsOfBody :
          add_subsection(title, lists)
    \/ \E titles \in CandidateTitles : call_get_list_from_subsection(titles)

SpecList == InitList /\ [][NextList]_vars

(***************************************************************************)
(* Definitions: register and time_period.                                  *)
(***************************************************************************)
MaxDefTemplates == 3

\* the template names from_definition_and_str looks up
MISHLAV == "MISHLAV"
MISHLAV_RT == "MISHLAV/RT"
SLANG == "SLANG"
ROVAD == "ROVAD"
HAZAL == "HAZAL"
MIKRA == "MIKRA"
DefTemplateNames == {MISHLAV, MISHLAV_RT, SLANG, ROVAD, HAZAL, MIKRA}
\* argument values are strings of characters; none is a template's name
DefTemplateArgs == {<<>>, <<<<>>>>, <<<<"x">>>>, <<<<"x">>, <<"y">>>>}
DefTemplates == [name : DefTemplateNames, arguments : DefTemplateArgs]

\* the literals the code falls back on: the template's own name
literal(name) == <<name>>

\* "|".join
RECURSIVE join(_)
join(values) ==
    IF values = <<>> THEN <<>>
    ELSE IF Len(values) = 1 THEN values[1]
    ELSE values[1] \o <<"|">> \o join(Tail(values))

RECURSIVE tems_first_wins(_)
tems_first_wins(templates) ==
    IF templates = <<>> THEN <<>>
    ELSE LET rest == tems_first_wins(Tail(templates))
             t == Head(templates)
         IN [n \in DOMAIN rest \cup {t.name} |->
                IF n = t.name THEN join(t.arguments) ELSE rest[n]]

\* the dict comprehension: name -> joined argument values, a later template
\* of the same name replacing the earlier
RECURSIVE tems_of(_)
tems_of(templates) ==
    IF templates = <<>> THEN <<>>
    ELSE LET rest == tems_of(SubSeq(templates, 1, Len(templates) - 1))
             t == templates[Len(templates)]
         IN [n \in DOMAIN rest \cup {t.name} |->
                IF n = t.name THEN join(t.arguments) ELSE rest[n]]

\* dict.get, and Python's truth of its result
get(d, k) == IF k \in DOMAIN d THEN Some(d[k]) ELSE Absent
truthy(v) == v # Absent /\ v[1] # <<>>

register_of(tems) ==
    IF truthy(get(tems, MISHLAV)) THEN get(tems, MISHLAV)
    ELSE IF truthy(get(tems, MISHLAV_RT)) THEN get(tems, MISHLAV_RT)
    ELSE IF SLANG \in DOMAIN tems THEN Some(literal(SLANG))
    ELSE Absent

time_period_of(tems) ==
    IF truthy(get(tems, ROVAD)) THEN get(tems, ROVAD)
    ELSE IF HAZAL \in DOMAIN tems THEN Some(literal(HAZAL))
    ELSE IF MIKRA \in DOMAIN tems THEN Some(literal(MIKRA))
    ELSE Absent

\* the author writes one more template into the definition
write_template(t) ==
    /\ df_pc = "build"
    /\ Len(df_templates) < MaxDefTemplates
    /\ df_templates' = Append(df_templates, t)
    /\ UNCHANGED <<df_pc, df_register, df_time_period>>
    /\ UNCHANGED <<drv_vars, frm_vars, mk_vars, tr_vars, ls_vars>>

from_definition_and_str ==
    /\ df_pc = "build"
    /\ df_pc' = "done"
    /\ df_register' = register_of(tems_of(df_templates))
    /\ df_time_period' = time_period_of(tems_of(df_templates))
    /\ UNCHANGED df_templates
    /\ UNCHANGED <<drv_vars, frm_vars, mk_vars, tr_vars, ls_vars>>

InitDef ==
    /\ df_pc = "build"
    /\ df_templates = <<>>
    /\ df_register = Absent
    /\ df_time_period = Absent
    /\ IdleDriver /\ IdleForm /\ IdleMarkup /\ IdleTrans /\ IdleList

NextDef ==
    \/ \E t \in DefTemplates : write_template(t)
    \/ from_definition_and_str

SpecDef == InitDef /\ [][NextDef]_vars

(***************************************************************************)
(* The dump driver.                                                        *)
(***************************************************************************)
MaxPages == 2
MaxSections == 2

\* string.ascii_letters, cut to the letters the model's titles use
ascii_letters == {"a", "h", "A", "Z"}

TitleTexts == {<<"SHIN">>, <<"h">>, <<"SHIN", "a">>}

\* int(): the texts that parse as integers, and their values
IntTexts == {"7", "9"}
int(s) == IF s = "7" THEN 7 ELSE 9

\* A level-2 section, by its grammar template: none, one whose root is
\* {{SHORESH|KTB}}, or one whose root is a bare {{SHORESH}}.
SectionShapes == {"no_template", "root_arg", "root_bare"}
PageTexts == SeqsUpTo(SectionShapes, MaxSections)

Revisions == [id : Opt({"9", "x"}), sha1 : Opt({"sha"}), text : Opt(PageTexts)]
PageElements ==
    [ns : Opt({"0", "1"}), title : Opt(TitleTexts), id : Opt({"7"}),
     revision : Opt(Revisions)]

\* bs4's tag.name: the first descendant element of that name
xml_title(xml) == xml.title
xml_ns(xml) == xml.ns
xml_revision(xml) == xml.revision
xml_id(xml) ==
    IF xml.id # Absent THEN xml.id
    ELSE IF xml.revision # Absent THEN xml.revision[1].id
    ELSE Absent

\* GrammarInfo.from_dict's root: t.arguments[0] of a bare template raises
from_dict_raises(sec) == sec = "root_bare"
from_dict(sec) == [root |-> Some("KTB")]

from_section_raises(sec) == from_dict_raises(sec)
from_section(sec) ==
    [grammatical_info |->
        IF sec = "no_template" THEN Absent ELSE Some(from_dict(sec))]

\* Page.from_xml raises when a not_none or an int() fails, or an entry does
from_xml_raises(xml) ==
    LET rev == xml_revision(xml) IN
    \/ rev = Absent
    \/ rev[1].text = Absent
    \/ xml_title(xml) = Absent
    \/ xml_id(xml) = Absent
    \/ xml_id(xml)[1] \notin IntTexts
    \/ rev[1].id = Absent
    \/ rev[1].id[1] \notin IntTexts
    \/ rev[1].sha1 = Absent
    \/ \E i \in DOMAIN rev[1].text[1] : from_section_raises(rev[1].text[1][i])

from_xml(xml) ==
    LET rev == xml_revision(xml)[1] IN
    [title |-> xml_title(xml)[1],
     pid |-> int(xml_id(xml)[1]),
     revision_id |-> int(rev.id[1]),
     sha1 |-> rev.sha1[1],
     entries |-> [i \in DOMAIN rev.text[1] |-> from_section(rev.text[1][i])]]

\* try_parse_page: the Page, or None after printing the title; the print
\* itself raises when the element has no title
try_parse_page(xml) ==
    IF ~from_xml_raises(xml)
    THEN [raised |-> FALSE, printed |-> FALSE, page |-> Some(from_xml(xml))]
    ELSE IF xml_title(xml) = Absent
    THEN [raised |-> TRUE, printed |-> FALSE, page |-> Absent]
    ELSE [raised |-> FALSE, printed |-> TRUE, page |-> Absent]

\* the children the dump format promises (section 6 of the specification)
missing_child(xml) ==
    \/ xml.title = Absent \/ xml.id = Absent \/ xml.ns = Absent
    \/ xml.revision = Absent
    \/ xml.revision # Absent /\
         (\/ xml.revision[1].id = Absent \/ xml.revision[1].sha1 = Absent
          \/ xml.revision[1].text = Absent)

summary(xml) ==
    [ns |-> xml.ns, title |-> xml.title, missing |-> missing_child(xml),
     assembly_raises |-> from_xml_raises(xml)]

\* parse_pages, one page element of the lazy filter/map/filter at a time
parse_pages_step(xml) ==
    /\ drv_pc = "parsing"
    /\ Len(drv_fed) < MaxPages
    /\ drv_fed' = Append(drv_fed, summary(xml))
    /\ UNCHANGED <<drv_output, frm_vars, mk_vars, tr_vars, ls_vars, df_vars>>
    /\ IF xml_ns(xml) = Absent
       THEN \* p.ns.text on None: AttributeError, outside any try
            /\ drv_pc' = "crashed"
            /\ UNCHANGED <<drv_pages, drv_origin, drv_log>>
       ELSE IF xml_ns(xml)[1] # "0"
       THEN UNCHANGED <<drv_pc, drv_pages, drv_origin, drv_log>>
       ELSE LET r == try_parse_page(xml) IN
            /\ drv_pc' = IF r.raised THEN "crashed" ELSE "parsing"
            /\ drv_log' = IF r.printed THEN drv_log \cup {Len(drv_fed) + 1}
                          ELSE drv_log
            /\ drv_pages' = IF r.page # Absent
                            THEN Append(drv_pages, r.page[1]) ELSE drv_pages
            /\ drv_origin' = IF r.page # Absent
                             THEN Append(drv_origin, Len(drv_fed) + 1)
                             ELSE drv_origin

\* parse_pages returns at the end of the document
parse_pages_return ==
    /\ drv_pc = "parsing"
    /\ drv_pc' = "parsed"
    /\ UNCHANGED <<drv_fed, drv_pages, drv_origin, drv_log, drv_output>>
    /\ UNCHANGED <<frm_vars, mk_vars, tr_vars, ls_vars, df_vars>>

has_ascii_letter(title) == Range(title) \cap ascii_letters # {}

\* main: the title filter and the dump to pages.json
main ==
    /\ drv_pc = "parsed"
    /\ drv_pc' = "written"
    /\ drv_output' =
         Some(SelectSeq([k \in DOMAIN drv_pages |-> k],
                        LAMBDA k : ~has_ascii_letter(drv_pages[k].title)))
    /\ UNCHANGED <<drv_fed, drv_pages, drv_origin, drv_log>>
    /\ UNCHANGED <<frm_vars, mk_vars, tr_vars, ls_vars, df_vars>>

InitDriver ==
    /\ drv_pc = "parsing"
    /\ drv_fed = <<>>
    /\ drv_pages = <<>>
    /\ drv_origin = <<>>
    /\ drv_log = {}
    /\ drv_output = Absent
    /\ IdleForm /\ IdleMarkup /\ IdleTrans /\ IdleList /\ IdleDef

NextDriver ==
    \/ \E xml \in PageElements : parse_pages_step(xml)
    \/ parse_pages_return
    \/ main

SpecDriver == InitDriver /\ [][NextDriver]_vars

(***************************************************************************)
(* The whole program: one part runs in a behaviour.                        *)
(***************************************************************************)
Init ==
    \/ InitDriver \/ InitForm \/ InitMarkup
    \/ InitTrans \/ InitList \/ InitDef

Next ==
    \/ NextDriver \/ NextForm \/ NextMarkup
    \/ NextTrans \/ NextList \/ NextDef

Spec == Init /\ [][Next]_vars

(***************************************************************************)
(* Properties.                                                             *)
(***************************************************************************)
main_namespace(i) == drv_fed[i].ns = Some("0")
returned(i) == {k \in DOMAIN drv_origin : drv_origin[k] = i}

\* C1: when every page fed to parse_pages is a main-namespace page, the
\* driver never stops early, a page whose assembly raises contributes no
\* Page, and every page whose assembly does not raise is returned exactly
\* once.
C1_RaisingPageDroppedOthersReturned ==
    (\A i \in DOMAIN drv_fed : main_namespace(i)) =>
        /\ drv_pc # "crashed"
        /\ \A i \in DOMAIN drv_fed :
             Cardinality(returned(i)) =
               IF drv_fed[i].assembly_raises THEN 0 ELSE 1

\* C2: a page element that lacks an expected child never aborts parse_pages:
\* it is dropped, and logged when the driver parses it, while every
\* well-formed main-namespace page whose assembly does not raise is
\* returned.
C2_MissingChildDropsOnlyThatPage ==
    /\ drv_pc # "crashed"
    /\ \A i \in DOMAIN drv_fed :
         /\ drv_fed[i].missing => returned(i) = {}
         /\ drv_fed[i].missing /\ main_namespace(i) => i \in drv_log
         /\ (~drv_fed[i].missing /\ main_namespace(i)
               /\ ~drv_fed[i].assembly_raises) => returned(i) # {}

written(i) ==
    /\ drv_output # Absent
    /\ \E k \in Range(drv_output[1]) : drv_origin[k] = i

\* C3: every page written to the output comes from an element whose ns is
\* "0" and whose title has no ASCII letter; and once the program has ended,
\* every element with ns "0", a title without ASCII letters and an assembly
\* that does not raise has been written.
C3_OutputIsMainNamespaceWithoutAscii ==
    /\ \A i \in DOMAIN drv_fed :
         written(i) =>
           /\ main_namespace(i)
           /\ drv_fed[i].title # Absent
           /\ ~has_ascii_letter(drv_fed[i].title[1])
    /\ drv_pc \in {"written", "crashed"} =>
         \A i \in DOMAIN drv_fed :
           (/\ main_namespace(i)
            /\ drv_fed[i].title # Absent
            /\ ~has_ascii_letter(drv_fed[i].title[1])
            /\ ~drv_fed[i].assembly_raises) => written(i)

\* the tags the specification lists for a declension
ListedTags ==
    {"plural", "female", "female plural", "male plural", "construct",
     "construct plural", "dual", "singular", "possessive", "definite",
     "female construct", "unknown"}

declension_tags ==
    (IF frm_declensions = Absent THEN {}
     ELSE {frm_declensions[1][i][1] : i \in DOMAIN frm_declensions[1]})
    \cup (IF frm_form = Absent THEN {} ELSE {frm_form[1][1]})

\* C4 as stated: every declension tag is one of the twelve listed tags.
C4_TagsAmongListed == declension_tags \subseteq ListedTags

\* C4 as amended: every declension tag is one of the twelve listed tags or
\* "male".
C4_TagsAmongListedOrMale == declension_tags \subseteq ListedTags \cup {"male"}

\* C4: a declensions value has been parsed and holds a "male" item next to
\* an "unknown" one.
C4_Witness ==
    /\ frm_pc = "done"
    /\ "male" \in declension_tags
    /\ "unknown" \in declension_tags

\* the table's tag for a whole token (Absent when it is no key)
tag_of_token(tok) ==
    LET hits == {i \in DOMAIN wiktionary_form_tag :
                    wiktionary_form_tag[i][1] = tok}
    IN IF hits = {} THEN Absent ELSE Some(wiktionary_form_tag[Min(hits)][2])

\* the three-way case analysis of C8
three_way(f) ==
    LET parts == split_maxsplit1(f)
        tagged == /\ \E i \in DOMAIN f : f[i] \in whitespace
                  /\ parts # <<>>
                  /\ tag_of_token(parts[1]) # Absent
    IN IF tagged
       THEN <<tag_of_token(parts[1])[1],
              IF Len(parts) >= 2 THEN parts[2] ELSE <<>> >>
       ELSE IF f # <<>> /\ f[Len(f)] = "MAQAF"
       THEN <<"construct", SubSeq(f, 1, Len(f) - 1)>>
       ELSE <<"unknown", f>>

\* C8: each declension item is tagged by its whole leading token when the
\* item contains whitespace and the token is a key of the table; otherwise
\* an item ending in the maqaf is a construct, with or without whitespace;
\* otherwise it is unknown.
C8_ParseFormThreeWay ==
    frm_declensions # Absent =>
        LET pieces == decl_delim_regex_split(strip(frm_decls)) IN
        \A i \in DOMAIN pieces : frm_declensions[1][i] = three_way(pieces[i])

\* C5: every WikiLink of parse_wikilinks has a non-empty text: the display
\* text when one is given and non-empty, and otherwise the target.
C5_WikiLinkTextNonEmpty ==
    mk_pc = "linked" =>
        LET wls == wikilinks(mk_text) IN
        /\ Len(mk_links) = Len(wls)
        /\ \A k \in DOMAIN mk_links :
             /\ mk_links[k].text # <<>>
             /\ mk_links[k].link = wls[k].target
             /\ mk_links[k].text =
                  IF wls[k].text # Absent /\ wls[k].text[1] # <<>>
                  THEN wls[k].text[1] ELSE wls[k].target
        /\ \A k \in DOMAIN mk_antonyms :
             "wikilink" \in DOMAIN mk_antonyms[k] =>
                 /\ mk_antonyms[k].wikilink.text # <<>>
                 /\ mk_antonyms[k].wikilink = mk_links[k]

\* C5: parse_wikilinks has returned for a text with a wikilink whose display
\* text is empty and a wikilink that has none.
C5_Witness ==
    /\ mk_pc = "linked"
    /\ \E k \in DOMAIN mk_links : wikilinks(mk_text)[k].text = Some(<<>>)
    /\ \E k \in DOMAIN mk_links : wikilinks(mk_text)[k].text = Absent

\* C7: remove_markup is idempotent.
C7_RemoveMarkupIdempotent == mk_pc = "restripped" => mk_twice = mk_once

\* the translation templates with at least two arguments, in source order
translating == SelectSeq(tr_tems,
                         LAMBDA t : t.name = "TAV" /\ Len(t.arguments) >= 2)
second_arguments(tems) == [i \in DOMAIN tems |-> tems[i].arguments[2]]

\* C6: the keys of translations are the first arguments of the translation
\* templates with at least two arguments; each key maps to the second
\* arguments of its templates in source order, never to an empty list.
C6_TranslationsMergedInOrder ==
    /\ DOMAIN translations =
         {translating[i].arguments[1] : i \in DOMAIN translating}
    /\ \A k \in DOMAIN translations :
         /\ translations[k] # <<>>
         /\ translations[k] =
              second_arguments(
                  SelectSeq(translating, LAMBDA t : t.arguments[1] = k))

\* C6: the map has been built from templates that repeat a language code,
\* among them a template with fewer than two arguments.
C6_Witness ==
    /\ tr_pc = "done"
    /\ \E k \in DOMAIN translations : Len(translations[k]) = 2
    /\ \E i \in DOMAIN tr_tems :
         tr_tems[i].name = "TAV" /\ Len(tr_tems[i].arguments) < 2

RECURSIVE offset(_, _)
offset(lists, k) ==
    IF k <= 1 THEN 0 ELSE offset(lists, k - 1) + Len(lists[k - 1])

\* r holds the items of the lists, list after list
concatenation_of(r, lists) ==
    /\ Len(r) = offset(lists, Len(lists) + 1)
    /\ \A k \in DOMAIN lists : \A m \in DOMAIN lists[k] :
         r[offset(lists, k) + m] = lists[k][m]

\* C9: get_list_from_subsection takes the subsection of the first candidate
\* title that is a subsection, returns the items of its lists in order, and
\* returns absent when there is no such title or that subsection has no
\* list, whatever the later candidates hold.
C9_FirstCandidateDecides ==
    ls_pc = "called" =>
        LET hits == {i \in DOMAIN ls_titles :
                        ls_titles[i] \in DOMAIN ls_subsections}
        IN IF hits = {} THEN ls_result = Absent
           ELSE LET lists == ls_subsections[ls_titles[Min(hits)]] IN
                IF lists = <<>> THEN ls_result = Absent
                ELSE /\ ls_result # Absent
                     /\ concatenation_of(ls_result[1], lists)

\* C9: the first candidate's subsection has no list, the second one's has
\* two, and the call returned absent.
C9_Witness ==
    /\ ls_pc = "called"
    /\ Len(ls_titles) = 2
    /\ ls_titles[1] \in DOMAIN ls_subsections
    /\ ls_subsections[ls_titles[1]] = <<>>
    /\ ls_titles[2] \in DOMAIN ls_subsections
    /\ Len(ls_subsections[ls_titles[2]]) = 2
    /\ ls_result = Absent

Max(S) == CHOOSE x \in S : \A y \in S : y <= x

\* the last template of a name in the definition (Absent without one)
last_template(name) ==
    LET at == {i \in DOMAIN df_templates : df_templates[i].name = name} IN
    IF at = {} THEN Absent ELSE Some(df_templates[Max(at)])
present(name) == last_template(name) # Absent
value(name) == join(last_template(name)[1].arguments)
gives_value(name) == present(name) /\ value(name) # <<>>
bare(name) == present(name) /\ value(name) = <<>>

\* C10 as stated: a literal is used only for a template that is given no
\* argument value, after the sources that come before it.
C10_LiteralOnlyForBareTemplate ==
    df_pc = "done" =>
        /\ df_register =
             IF gives_value(MISHLAV) THEN Some(value(MISHLAV))
             ELSE IF gives_value(MISHLAV_RT) THEN Some(value(MISHLAV_RT))
             ELSE IF bare(SLANG) THEN Some(literal(SLANG))
             ELSE Absent
        /\ df_time_period =
             IF gives_value(ROVAD) THEN Some(value(ROVAD))
             ELSE IF bare(HAZAL) THEN Some(literal(HAZAL))
             ELSE IF bare(MIKRA) THEN Some(literal(MIKRA))
             ELSE Absent

\* C10 as amended: a literal is used for a template that is present, with
\* or without arguments, after the sources that come before it; a source
\* gives a value when the joined arguments of the last template of its name
\* are not the empty string.
C10_LiteralForPresentTemplate ==
    df_pc = "done" =>
        /\ df_register =
             IF gives_value(MISHLAV) THEN Some(value(MISHLAV))
             ELSE IF gives_value(MISHLAV_RT) THEN Some(value(MISHLAV_RT))
             ELSE IF present(SLANG) THEN Some(literal(SLANG))
             ELSE Absent
        /\ df_time_period =
             IF gives_value(ROVAD) THEN Some(value(ROVAD))
             ELSE IF present(HAZAL) THEN Some(literal(HAZAL))
             ELSE IF present(MIKRA) THEN Some(literal(MIKRA))
             ELSE Absent

\* C10: the register is the literal of a slang template that has an
\* argument value, after a register template that gives none.
C10_Witness ==
    /\ df_pc = "done"
    /\ present(SLANG) /\ gives_value(SLANG)
    /\ present(MISHLAV) /\ ~gives_value(MISHLAV)
    /\ df_register = Some(literal(SLANG))

====
